---- MODULE Spec2Model ----
(***************************************************************************)
(* ContentDataProvider (client/src/components/ContentNavigator):           *)
(* the mutation operations (create / rename / delete / recycle / restore / *)
(* favorites), the drop handlers, folder import and export.                *)
(*                                                                         *)
(* Every async method is a task that advances from one suspension point    *)
(* (await) to the next in one step; the code between two awaits is         *)
(* synchronous on the single JavaScript thread and is one atomic step.     *)
(* The answers of the collaborators that are not part of this file (the    *)
(* ContentModel's remote calls, the host's tab close) are inputs, drawn    *)
(* with \E at the step that receives them.                                 *)
(***************************************************************************)
EXTENDS Integers, Sequences, FiniteSets, TLC

\* ------------------------------------------------------------------ bounds

NumItems == 2          \* resources the navigator can hold at once
MaxNodes == 5          \* resources of the repository subtree that is exported
MaxEntries == 5        \* entries of the external directory tree that is imported

Items == 1..NumItems

\* --------------------------------------------------------------- constants

NoLoc   == "none"                  \* undefined locator / missing link
Trash   == "TRASH"                 \* locator of the @myRecycleBin delegate
Folders == {"F1", "F2"}            \* locators of ordinary folders

\* drop targets: the two delegate folders, ordinary folders, and a target
\* for which getResourceIdFromItem yields nothing
TRASH_FOLDER_TYPE     == "trashFolder"
FAVORITES_FOLDER_TYPE == "favoritesFolder"
Targets == {[type |-> TRASH_FOLDER_TYPE, id |-> Trash],
            [type |-> FAVORITES_FOLDER_TYPE, id |-> "FAV"],
            [type |-> "folder", id |-> "F1"],
            [type |-> "folder", id |-> "F2"],
            [type |-> "folder", id |-> NoLoc]}

\* what getDelegateFolder("@myRecycleBin") and its self link can answer
RecycleBins == {"none", "nolink", "ok"}

VARIABLES
  parent,   \* repository: item -> locator of its parent folder, NoLoc = no such resource
  prev,     \* repository: item -> its previousParent link (NoLoc = none)
  tab,      \* editor: item -> "none" | "cur" (tab open at the item's locator) | "stale"
  task,     \* item -> the call running on it (one record per item)
  batch,    \* the gesture in flight: its kind, position, own log and result
  \* export (downloadContentItems)
  xkind,    \* node -> TRUE when the resource is a container
  xall,     \* allSelections, the whole tree selection
  xstack,   \* the nested downloadContentItems calls, innermost last
  xlog,     \* repository reads and file-system writes, in order
  xstate,   \* "idle" | "running" | "done" | "rejected"
  \* import (handleFolderDrop and its two callers)
  ikind,    \* external entry -> "dir" | "file" | "none" (no such entry)
  ient,     \* external entry -> the sub-task importing it
  itop      \* the caller of the outermost handleFolderDrop

mvars == <<parent, prev, tab, task, batch>>
xvars == <<xkind, xall, xstack, xlog, xstate>>
ivars == <<ikind, ient, itop>>
transfer == <<xvars, ivars>>
vars == <<mvars, xvars, ivars>>

\* op: the provider method whose remote call the task is at; via: its callers,
\* outermost first; inBin, isRef: the flags of the descriptor it was given;
\* closing: what closeFileIfOpen returned; dest: the locator passed to the
\* remote call; log: what the task did, in order; ret: what it returned.
IdleTask == [op |-> "none", via |-> <<>>, pc |-> "idle", inBin |-> FALSE,
             isRef |-> FALSE, closing |-> "none", dest |-> NoLoc, log |-> <<>>,
             ret |-> "none"]

NoTarget == [type |-> "none", id |-> NoLoc]

IdleBatch == [kind |-> "idle", pc |-> "idle", target |-> NoTarget,
              children |-> {}, log |-> <<>>, ret |-> "none"]

\* The navigator with one resource in a folder, no tab open, nothing running.
MutInit ==
  /\ parent = [i \in Items |-> IF i = 1 THEN "F1" ELSE NoLoc]
  /\ prev = [i \in Items |-> NoLoc]
  /\ tab = [i \in Items |-> "none"]
  /\ task = [i \in Items |-> IdleTask]
  /\ batch = IdleBatch

\* No export in progress.
XIdle ==
  /\ xkind = <<>>
  /\ xall = <<>>
  /\ xstack = <<>>
  /\ xlog = <<>>
  /\ xstate = "idle"

\* No import in progress.
IIdle ==
  /\ ikind = <<>>
  /\ ient = <<>>
  /\ itop = <<>>

Init == MutInit /\ XIdle /\ IIdle

\* ------------------------------------------------ the repository (ContentModel)

\* The name of the ContentModel call each provider method awaits.
RemoteOf(op) ==
  CASE op = "createFolder" -> "createFolder"
    [] op = "createFile" -> "createFile"
    [] op = "renameResource" -> "renameResource"
    [] op = "deleteResource" -> "delete"
    [] op = "addToMyFavorites" -> "addFavorite"
    [] op = "removeFromMyFavorites" -> "removeFavorite"
    [] OTHER -> "moveTo"

\* What a successful ContentModel call does to the resource (the ContentModel is
\* not part of this file; this is the Resource state machine of the design:
\* Active -> [recycle] -> Trashed -> [restore] -> Active, any -> [delete] -> gone).
RepoParent(op, i, dest) ==
  CASE RemoteOf(op) = "delete" -> NoLoc
    [] RemoteOf(op) \in {"moveTo", "createFolder", "createFile"} -> dest
    [] OTHER -> parent[i]

RepoPrev(op, i, dest) ==
  CASE RemoteOf(op) = "moveTo" -> IF dest = Trash THEN parent[i] ELSE NoLoc
    [] RemoteOf(op) = "delete" -> NoLoc
    [] OTHER -> prev[i]

\* A rename gives the resource a new locator: a tab still open on it is left
\* at the old one.
RepoTab(op, i) ==
  IF RemoteOf(op) = "renameResource" /\ tab[i] = "cur" THEN "stale" ELSE tab[i]

\* getResourceIdFromItem(target)
getResourceIdFromItem(target) == target.id

\* flags.isInRecycleBin of the descriptor the tree hands out for item i
isInRecycleBin(i) == parent[i] = Trash

\* --------------------------------------------------------- task primitives

Emit(t, e) == [t EXCEPT !.log = Append(@, e)]

\* this.refresh(): _onDidChangeTreeData.fire(undefined)
refresh(t) == Emit(t, <<"refresh", "tree">>)

\* closeFileIfOpen(item): the promise of tabGroups.close(tab) when a tab shows
\* the item's file id, else the value true.
closeFileIfOpen(i) == IF tab[i] # "none" THEN "promise" ELSE "true"

\* `await this.model.<call>(...)`: the call is issued and the task suspends.
Issue(t) ==
  [Emit(t, <<"call", RemoteOf(t.op)>>) EXCEPT !.pc = "remote"]

\* handleContentItemDrop, lines 593-599: the error message of a failed drop.
DropEnd(t, success, message) ==
  [(IF success THEN t ELSE Emit(t, <<"error", message>>))
     EXCEPT !.pc = "done", !.ret = "void"]

\* A method returns val to its caller: recycleResource's fallback passes the
\* value of deleteResource through (line 325), handleContentItemDrop takes it
\* as `success` (lines 579, 581).
Return(t, val) ==
  LET n == Len(t.via)
      rest == IF n > 0 /\ t.via[n] = "recycleResource"
              THEN SubSeq(t.via, 1, n - 1) ELSE t.via
      t1 == Emit(t, <<"return", val>>)
  IN IF rest # <<>> /\ rest[Len(rest)] = "handleContentItemDrop"
     THEN DropEnd(t1, val = "true", "FileDropError")
     ELSE [t1 EXCEPT !.pc = "done", !.ret = val]

\* The value a method returns when it gives up or its remote call failed.
Failure(op) ==
  IF op \in {"createFolder", "createFile", "renameResource"}
  THEN "undefined" ELSE "false"

\* `const closing = closeFileIfOpen(item); if (!(await closing)) return ...;
\*  ... await this.model.<call>(item, ...)`: up to the first suspension.
CloseFirst(t, i, op, dest) ==
  LET closing == closeFileIfOpen(i)
      t1 == [t EXCEPT !.op = op, !.dest = dest, !.closing = closing]
  IN IF closing = "promise"
     THEN [Emit(t1, <<"close", "req">>) EXCEPT !.pc = "closing"]
     ELSE Issue(t1)

\* Faulty variants of AfterClose: the result of the close is not looked at; a declined
\* close still refreshes the tree.
AfterCloseUnchecked(t, closed) ==
  Issue(Emit(t, <<"close", IF closed THEN "ok" ELSE "declined">>))

AfterCloseNotifying(t, closed) ==
  IF closed
  THEN Issue(Emit(t, <<"close", "ok">>))
  ELSE Return(refresh(Emit(t, <<"close", "declined">>)), Failure(t.op))

\* The close promise resolved: `if (!(await closing)) return` (lines 292-294,
\* 311-313, 331-333, 348-350), else the remote call.
AfterClose(t, closed) ==
  IF closed
  THEN Issue(Emit(t, <<"close", "ok">>))
  ELSE Return(Emit(t, <<"close", "declined">>), Failure(t.op))

\* ------------------------------------------------ the methods, to first await

renameResource(t, i) == CloseFirst(t, i, "renameResource", NoLoc)

deleteResource(t, i) == CloseFirst(t, i, "deleteResource", NoLoc)

\* Faulty variant of recycleResource: without a trash delegate the item is
\* deleted at once, its open tab left alone.
recycleResourceBareDelete(t, i, recycleBin) ==
  IF recycleBin = "none"
  THEN Issue([t EXCEPT !.via = Append(@, "recycleResource"),
                       !.op = "deleteResource", !.closing = "true"])
  ELSE IF recycleBin = "nolink"
  THEN Return([t EXCEPT !.op = "recycleResource"], "false")
  ELSE CloseFirst(t, i, "recycleResource", Trash)

recycleResource(t, i, recycleBin) ==
  IF recycleBin = "none"
  THEN deleteResource([t EXCEPT !.via = Append(@, "recycleResource")], i)
  ELSE IF recycleBin = "nolink"
  THEN Return([t EXCEPT !.op = "recycleResource"], "false")
  ELSE CloseFirst(t, i, "recycleResource", Trash)

\* Faulty variant of restoreResource: the item is moved to the first folder
\* instead of the folder its previousParent link names.
restoreResourceToFirstFolder(t, i) ==
  IF prev[i] = NoLoc
  THEN Return([t EXCEPT !.op = "restoreResource"], "false")
  ELSE CloseFirst(t, i, "restoreResource", "F1")

\* Faulty variant of restoreResource: the tab is closed before the
\* previousParent link is looked at.
restoreResourceCloseFirst(t, i) ==
  CloseFirst(t, i, "restoreResource", prev[i])

restoreResource(t, i) ==
  LET previousParentUri == prev[i]
  IN IF previousParentUri = NoLoc
     THEN Return([t EXCEPT !.op = "restoreResource"], "false")
     ELSE CloseFirst(t, i, "restoreResource", previousParentUri)

addToMyFavorites(t) == Issue([t EXCEPT !.op = "addToMyFavorites"])

removeFromMyFavorites(t) == Issue([t EXCEPT !.op = "removeFromMyFavorites"])

createFolder(t, dest) == Issue([t EXCEPT !.op = "createFolder", !.dest = dest])

createFile(t, dest) == Issue([t EXCEPT !.op = "createFile", !.dest = dest])

\* Faulty variants of handleContentItemDrop: the reference check comes before the
\* recycle-bin check; the favorites delegate is treated as an ordinary folder.
handleContentItemDropRefFirst(target, i, isRef, recycleBin) ==
  LET t == [IdleTask EXCEPT !.via = <<"handleContentItemDrop">>,
                            !.inBin = isInRecycleBin(i), !.isRef = isRef]
  IN IF t.isRef
     THEN DropEnd(t, FALSE, "FileDragFromFavorites")
     ELSE IF t.inBin
     THEN DropEnd(t, FALSE, "FileDragFromTrashError")
     ELSE IF target.type = TRASH_FOLDER_TYPE
     THEN recycleResource(t, i, recycleBin)
     ELSE IF target.type = FAVORITES_FOLDER_TYPE
     THEN addToMyFavorites(t)
     ELSE LET targetUri == getResourceIdFromItem(target)
          IN IF targetUri # NoLoc
             THEN Issue([t EXCEPT !.op = "moveTo", !.dest = targetUri])
             ELSE DropEnd(t, FALSE, "FileDropError")

handleContentItemDropNoFavorites(target, i, isRef, recycleBin) ==
  LET t == [IdleTask EXCEPT !.via = <<"handleContentItemDrop">>,
                            !.inBin = isInRecycleBin(i), !.isRef = isRef]
  IN IF t.inBin
     THEN DropEnd(t, FALSE, "FileDragFromTrashError")
     ELSE IF t.isRef
     THEN DropEnd(t, FALSE, "FileDragFromFavorites")
     ELSE IF target.type = TRASH_FOLDER_TYPE
     THEN recycleResource(t, i, recycleBin)
     ELSE LET targetUri == getResourceIdFromItem(target)
          IN IF targetUri # NoLoc
             THEN Issue([t EXCEPT !.op = "moveTo", !.dest = targetUri])
             ELSE DropEnd(t, FALSE, "FileDropError")

handleContentItemDrop(target, i, isRef, recycleBin) ==
  LET t == [IdleTask EXCEPT !.via = <<"handleContentItemDrop">>,
                            !.inBin = isInRecycleBin(i), !.isRef = isRef]
  IN IF t.inBin
     THEN DropEnd(t, FALSE, "FileDragFromTrashError")
     ELSE IF t.isRef
     THEN DropEnd(t, FALSE, "FileDragFromFavorites")
     ELSE IF target.type = TRASH_FOLDER_TYPE
     THEN recycleResource(t, i, recycleBin)
     ELSE IF target.type = FAVORITES_FOLDER_TYPE
     THEN addToMyFavorites(t)
     ELSE LET targetUri == getResourceIdFromItem(target)
          IN IF targetUri # NoLoc
             THEN Issue([t EXCEPT !.op = "moveTo", !.dest = targetUri])
             ELSE DropEnd(t, FALSE, "FileDropError")

\* ------------------------------------------- the methods, after the remote call

Answered(t, ok) == Emit(t, <<IF ok THEN "ok" ELSE "fail", RemoteOf(t.op)>>)

\* createFolder / createFile, lines 269-272 and 281-284
createDone(t, ok) ==
  IF ok THEN Return(refresh(t), "uri") ELSE Return(t, "undefined")

\* Faulty variant of renameResourceDone: the document is opened whether or not a tab
\* had been open.
renameResourceDoneAlwaysOpen(t, ok) ==
  IF ok THEN Return(Emit(t, <<"open", "doc">>), "uri") ELSE Return(t, "undefined")

\* renameResource, lines 296-303
renameResourceDone(t, ok) ==
  IF ok
  THEN Return(IF t.closing # "true" THEN Emit(t, <<"open", "doc">>) ELSE t, "uri")
  ELSE Return(t, "undefined")

\* Faulty variant of refreshDone: the tree is refreshed whatever the
\* repository answered.
refreshDoneAlways(t, ok) ==
  Return(refresh(t), IF ok THEN "true" ELSE "false")

\* deleteResource 315-318, restoreResource 352-355, addToMyFavorites 373-376,
\* removeFromMyFavorites 381-384
refreshDone(t, ok) ==
  IF ok THEN Return(refresh(t), "true") ELSE Return(t, "false")

\* Faulty variant of recycleResourceDone: the document event is fired outside the
\* success branch.
recycleResourceDoneAlwaysChanged(t, ok) ==
  Return(Emit(IF ok THEN refresh(t) ELSE t, <<"changed", "readOnly">>),
         IF ok THEN "true" ELSE "false")

\* recycleResource, lines 335-340
recycleResourceDone(t, ok) ==
  IF ok
  THEN Return(Emit(refresh(t), <<"changed", "readOnly">>), "true")
  ELSE Return(t, "false")

\* Faulty variant of dropMoveDone: the refresh after a successful move is missing.
dropMoveDoneNoRefresh(t, ok) == DropEnd(t, ok, "FileDropError")

\* handleContentItemDrop, lines 585-599
dropMoveDone(t, ok) ==
  DropEnd(IF ok THEN refresh(t) ELSE t, ok, "FileDropError")

AfterRemote(t, ok) ==
  CASE t.op \in {"createFolder", "createFile"} -> createDone(Answered(t, ok), ok)
    [] t.op = "renameResource" -> renameResourceDone(Answered(t, ok), ok)
    [] t.op = "recycleResource" -> recycleResourceDone(Answered(t, ok), ok)
    [] t.op = "moveTo" -> dropMoveDone(Answered(t, ok), ok)
    [] OTHER -> refreshDone(Answered(t, ok), ok)

\* emptyRecycleBin, lines 361-368: children is the array of the trash
\* delegate's children, result the array Promise.all resolved to.
emptyRecycleBinDone(b, children, result) ==
  LET success == Len(result) = Len(children)
  IN [(IF success THEN refresh(b) ELSE b)
        EXCEPT !.pc = "done", !.ret = IF success THEN "true" ELSE "false"]

\* The items of S as an array, in tree order.
RECURSIVE Sorted(_)
Sorted(S) ==
  IF S = {} THEN <<>>
  ELSE LET m == CHOOSE x \in S : \A y \in S : x <= y
       IN <<m>> \o Sorted(S \ {m})

\* ----------------------------------------------------------------- actions

Idle == batch.pc = "idle"

Exists(i) == parent[i] # NoLoc

\* One provider method called on one item.
StartCall(i, t) ==
  /\ Idle
  /\ task' = [task EXCEPT ![i] = t]
  /\ batch' = [IdleBatch EXCEPT !.kind = "call", !.pc = "running"]
  /\ UNCHANGED <<parent, prev, tab, transfer>>

CreateFolder(i) ==
  /\ ~Exists(i)
  /\ \E dest \in Folders : StartCall(i, createFolder(IdleTask, dest))

CreateFile(i) ==
  /\ ~Exists(i)
  /\ \E dest \in Folders : StartCall(i, createFile(IdleTask, dest))

RenameResource(i) ==
  /\ Exists(i)
  /\ StartCall(i, renameResource([IdleTask EXCEPT !.inBin = isInRecycleBin(i)], i))

DeleteResource(i) ==
  /\ Exists(i)
  /\ StartCall(i, deleteResource([IdleTask EXCEPT !.inBin = isInRecycleBin(i)], i))

RecycleResource(i) ==
  /\ parent[i] \in Folders
  /\ \E recycleBin \in RecycleBins :
       StartCall(i, recycleResource(IdleTask, i, recycleBin))

RestoreResource(i) ==
  /\ Exists(i)
  /\ StartCall(i, restoreResource([IdleTask EXCEPT !.inBin = isInRecycleBin(i)], i))

AddToMyFavorites(i) ==
  /\ parent[i] \in Folders
  /\ StartCall(i, addToMyFavorites(IdleTask))

RemoveFromMyFavorites(i) ==
  /\ parent[i] \in Folders
  /\ StartCall(i, removeFromMyFavorites([IdleTask EXCEPT !.isRef = TRUE]))

\* Faulty variant of HandleDrop: only the first item of the payload is handed
\* to handleContentItemDrop.
HandleDropFirstOnly ==
  /\ Idle
  /\ \E target \in Targets, sources \in (SUBSET Items) \ {{}},
        recycleBin \in RecycleBins :
       /\ \A i \in sources : Exists(i)
       /\ target.type = TRASH_FOLDER_TYPE => recycleBin # "none"
       /\ \E refs \in SUBSET sources :
            task' = [i \in Items |->
                       IF i \in sources /\ \A j \in sources : i <= j
                       THEN handleContentItemDrop(target, i, i \in refs, recycleBin)
                       ELSE IdleTask]
       /\ batch' = [IdleBatch EXCEPT !.kind = "handleDrop", !.pc = "running",
                                     !.target = target, !.children = sources]
  /\ UNCHANGED <<parent, prev, tab, transfer>>

\* handleDrop with a payload of internal items (lines 132-139): every
\* handleContentItemDrop runs to its first await before Promise.all is awaited.
\* A drop on the trash folder finds the trash delegate (the target is it).
HandleDrop ==
  /\ Idle
  /\ \E target \in Targets, sources \in (SUBSET Items) \ {{}},
        recycleBin \in RecycleBins :
       /\ \A i \in sources : Exists(i)
       /\ target.type = TRASH_FOLDER_TYPE => recycleBin # "none"
       /\ \E refs \in SUBSET sources :
            task' = [i \in Items |->
                       IF i \in sources
                       THEN handleContentItemDrop(target, i, i \in refs, recycleBin)
                       ELSE IdleTask]
       /\ batch' = [IdleBatch EXCEPT !.kind = "handleDrop", !.pc = "running",
                                     !.target = target, !.children = sources]
  /\ UNCHANGED <<parent, prev, tab, transfer>>

\* emptyRecycleBin, lines 359-363: the children of the trash delegate, one
\* deleteResource each.
EmptyRecycleBin ==
  /\ Idle
  /\ LET children == {i \in Items : parent[i] = Trash}
     IN /\ task' = [i \in Items |->
                      IF i \in children
                      THEN deleteResource(
                             [IdleTask EXCEPT !.via = <<"emptyRecycleBin">>,
                                              !.inBin = TRUE], i)
                      ELSE IdleTask]
        /\ batch' = [IdleBatch EXCEPT !.kind = "emptyRecycleBin",
                                      !.pc = "running", !.children = children]
  /\ UNCHANGED <<parent, prev, tab, transfer>>

\* window.tabGroups.close(tab) resolves: true when the tab was closed, false
\* when the user kept it.
CloseResolve(i) ==
  /\ task[i].pc = "closing"
  /\ \E closed \in BOOLEAN :
       /\ task' = [task EXCEPT ![i] = AfterClose(task[i], closed)]
       /\ tab' = [tab EXCEPT ![i] = IF closed THEN "none" ELSE @]
  /\ UNCHANGED <<parent, prev, batch, transfer>>

\* The ContentModel call resolves, with or without success.
RemoteResolve(i) ==
  /\ task[i].pc = "remote"
  /\ \E ok \in BOOLEAN :
       LET t == task[i]
           done == AfterRemote(t, ok)
       IN /\ task' = [task EXCEPT ![i] = done]
          /\ parent' = [parent EXCEPT ![i] = IF ok THEN RepoParent(t.op, i, t.dest) ELSE @]
          /\ prev' = [prev EXCEPT ![i] = IF ok THEN RepoPrev(t.op, i, t.dest) ELSE @]
          /\ tab' = [tab EXCEPT ![i] =
                       IF <<"open", "doc">> \in {done.log[k] : k \in DOMAIN done.log}
                       THEN "cur"
                       ELSE IF ok THEN RepoTab(t.op, i) ELSE @]
  /\ UNCHANGED <<batch, transfer>>

Running(i) == task[i].pc \in {"closing", "remote"}

\* Promise.all resolves once every per-item task has returned.
Join ==
  /\ batch.pc = "running"
  /\ \A i \in Items : ~Running(i)
  /\ batch' =
       IF batch.kind = "emptyRecycleBin"
       THEN LET children == Sorted(batch.children)
                result == [k \in DOMAIN children |-> task[children[k]].ret]
            IN emptyRecycleBinDone(batch, children, result)
       ELSE [batch EXCEPT !.pc = "done", !.ret = "void"]
  /\ UNCHANGED <<parent, prev, tab, task, transfer>>

\* The gesture is over; the next one starts from a clean slate.
Settle ==
  /\ batch.pc = "done"
  /\ task' = [i \in Items |-> IdleTask]
  /\ batch' = IdleBatch
  /\ UNCHANGED <<parent, prev, tab, transfer>>

\* The user opens the item in an editor tab.
OpenTab(i) ==
  /\ Idle
  /\ Exists(i)
  /\ tab[i] = "none"
  /\ tab' = [tab EXCEPT ![i] = "cur"]
  /\ UNCHANGED <<parent, prev, task, batch, transfer>>

Next ==
  \/ \E i \in Items : CreateFolder(i)
  \/ \E i \in Items : CreateFile(i)
  \/ \E i \in Items : RenameResource(i)
  \/ \E i \in Items : DeleteResource(i)
  \/ \E i \in Items : RecycleResource(i)
  \/ \E i \in Items : RestoreResource(i)
  \/ \E i \in Items : AddToMyFavorites(i)
  \/ \E i \in Items : RemoveFromMyFavorites(i)
  \/ HandleDrop
  \/ EmptyRecycleBin
  \/ \E i \in Items : CloseResolve(i)
  \/ \E i \in Items : RemoteResolve(i)
  \/ Join
  \/ Settle
  \/ \E i \in Items : OpenTab(i)

Spec == Init /\ [][Next]_vars

\* The gestures with every pending answer given in the end: a close
\* confirmation is answered by the user, a ContentModel call is answered or
\* failed by the transport, and Promise.all resolves once its promises have.
SpecFair ==
  /\ Init
  /\ [][Next]_vars
  /\ \A i \in Items : WF_vars(CloseResolve(i)) /\ WF_vars(RemoteResolve(i))
  /\ WF_vars(Join)

TypeOK ==
  /\ parent \in [Items -> Folders \cup {NoLoc, Trash}]
  /\ prev \in [Items -> Folders \cup {NoLoc}]
  /\ tab \in [Items -> {"none", "cur", "stale"}]
  /\ \A i \in Items : task[i].pc \in {"idle", "closing", "remote", "done"}
  /\ batch.pc \in {"idle", "running", "done"}

\* ------------------------------------------------- export (downloadContentItems)

Nodes == 1..MaxNodes

\* The exported subtree: node 1 is its root, nodes 2..4 lie in node 1,
\* nodes 5..7 in node 2, and so on. A resource's uri is its number, its
\* parentFolderUri the number of its parent (0: outside the subtree).
parentFolderUri(n) == (n + 1) \div 3

Range(s) == {s[k] : k \in DOMAIN s}

\* this.getChildren(selection): the children the repository holds
getChildren(selection) ==
  Sorted({n \in Nodes : parentFolderUri(n) = selection})

\* Faulty variant of childrenSelections: the children are always fetched.
childrenSelectionsAlwaysFetch(selection, allSelections) ==
  [items |-> getChildren(selection), fetched |-> TRUE]

\* childrenSelections, lines 552-566; fetched: getChildren was called
childrenSelections(selection, allSelections) ==
  LET foundSelections ==
        SelectSeq(allSelections, LAMBDA f : parentFolderUri(f) = selection)
  IN IF Len(foundSelections) > 0
     THEN [items |-> foundSelections, fetched |-> FALSE]
     ELSE [items |-> getChildren(selection), fetched |-> TRUE]

\* A repository subtree (which resources are containers: every resource with
\* children is one) and the tree selection made in it.
XTree ==
  /\ xkind \in {k \in [Nodes -> BOOLEAN] :
                  \A n \in Nodes : parentFolderUri(n) \in Nodes => k[parentFolderUri(n)]}
  /\ \E all \in SUBSET Nodes : xall = Sorted(all)
  /\ xstack = <<>>
  /\ xlog = <<>>
  /\ xstate = "idle"

Top == xstack[Len(xstack)]

\* The frames with the innermost call advanced / replaced.
Advance(stack) ==
  [stack EXCEPT ![Len(stack)].i = @ + 1]

\* downloadContentItems(folderUri, selections, allSelections) is called.
Download ==
  /\ xstate = "idle"
  /\ \E selections \in SUBSET Range(xall) :
       xstack' = <<[folderUri |-> <<>>, selections |-> Sorted(selections), i |-> 1]>>
  /\ xstate' = "running"
  /\ UNCHANGED <<xkind, xall, xlog, mvars, ivars>>

\* Faulty variant of ExportFolder: the nested call starts without the
\* container's directory having been created.
ExportFolderNoDirectory ==
  /\ xstate = "running"
  /\ Top.i <= Len(Top.selections)
  /\ LET selection == Top.selections[Top.i]
         newFolderUri == Append(Top.folderUri, selection)
         selectionsWithinFolder == childrenSelections(selection, xall)
         read == IF selectionsWithinFolder.fetched
                 THEN << <<"getChildren", <<selection>> >> >> ELSE <<>>
     IN /\ xkind[selection]
        /\ xlog' = xlog \o read
        /\ xstack' = Append(xstack,
                            [folderUri |-> newFolderUri,
                             selections |-> selectionsWithinFolder.items,
                             i |-> 1])
        /\ xstate' = xstate
  /\ UNCHANGED <<xkind, xall, mvars, ivars>>

\* Lines 531-542: a container. Its selections are computed, its directory is
\* created, then the nested call starts. A failing createDirectory rejects
\* the whole download.
ExportFolder ==
  /\ xstate = "running"
  /\ Top.i <= Len(Top.selections)
  /\ LET selection == Top.selections[Top.i]
         newFolderUri == Append(Top.folderUri, selection)
         selectionsWithinFolder == childrenSelections(selection, xall)
         read == IF selectionsWithinFolder.fetched
                 THEN << <<"getChildren", <<selection>> >> >> ELSE <<>>
     IN /\ xkind[selection]
        /\ \E created \in BOOLEAN :
             IF created
             THEN /\ xlog' = xlog \o read \o << <<"createDirectory", newFolderUri>> >>
                  /\ xstack' = Append(xstack,
                                      [folderUri |-> newFolderUri,
                                       selections |-> selectionsWithinFolder.items,
                                       i |-> 1])
                  /\ xstate' = xstate
             ELSE /\ xlog' = xlog \o read
                  /\ xstack' = <<>>
                  /\ xstate' = "rejected"
  /\ UNCHANGED <<xkind, xall, mvars, ivars>>

\* Lines 543-548: a file is read from the repository and written.
ExportFile ==
  /\ xstate = "running"
  /\ Top.i <= Len(Top.selections)
  /\ LET selection == Top.selections[Top.i]
     IN /\ ~xkind[selection]
        /\ \E written \in BOOLEAN :
             IF written
             THEN /\ xlog' = Append(xlog, <<"writeFile", Append(Top.folderUri, selection)>>)
                  /\ xstack' = Advance(xstack)
                  /\ xstate' = xstate
             ELSE /\ xlog' = xlog
                  /\ xstack' = <<>>
                  /\ xstate' = "rejected"
  /\ UNCHANGED <<xkind, xall, mvars, ivars>>

\* Line 529: the loop of a call is over; the call returns to the one that
\* awaited it (line 538), or the download is done.
ExportReturn ==
  /\ xstate = "running"
  /\ Top.i > Len(Top.selections)
  /\ LET rest == SubSeq(xstack, 1, Len(xstack) - 1)
     IN IF rest = <<>>
        THEN xstack' = rest /\ xstate' = "done"
        ELSE xstack' = Advance(rest) /\ xstate' = xstate
  /\ UNCHANGED <<xkind, xall, xlog, mvars, ivars>>

XNext == Download \/ ExportFolder \/ ExportFile \/ ExportReturn

XInit == MutInit /\ XTree /\ IIdle

SpecExport == XInit /\ [][XNext]_vars

\* ---------------------------------- import (handleFolderDrop and its callers)

Entries == 1..MaxEntries

Root == 1

\* The external directory tree: entry 1 is the dropped directory, entries
\* 2..4 lie in entry 1, entries 5..7 in entry 2, and so on.
dirOf(n) == (n + 1) \div 3

\* Faulty variant of EntriesOf: only the first entry of a directory is taken.
EntriesOfFirstOnly(n) ==
  {c \in Entries : dirOf(c) = n /\ ikind[c] # "none"
                     /\ \A b \in Entries : (dirOf(b) = n /\ ikind[b] # "none") => c <= b}

EntriesOf(n) == {c \in Entries : dirOf(c) = n /\ ikind[c] # "none"}

IdleEntry == [pc |-> "idle", success |-> TRUE, log |-> <<>>, ret |-> "none"]

\* An external directory tree (an entry exists only inside a directory) and
\* the caller it is handed to: handleDataTransferItemDrop ("drop") or
\* uploadUrisToTarget ("upload").
ITree ==
  /\ ikind \in {k \in [Entries -> {"dir", "file", "none"}] :
                  /\ k[Root] = "dir"
                  /\ \A n \in Entries \ {Root} : k[n] # "none" => k[dirOf(n)] = "dir"}
  /\ ient = [n \in Entries |-> IdleEntry]
  /\ \E mode \in {"drop", "upload"} :
       itop = [mode |-> mode, pc |-> "idle", failedUploads |-> <<>>, log |-> <<>>]

\* The displayErrorMessages argument of the handleFolderDrop call for
\* directory n: false from uploadUrisToTarget (line 506), the default
\* everywhere else (lines 629, 668).
displayErrorMessages(n) == IF n = Root THEN itop.mode = "drop" ELSE TRUE

\* Faulty variant of handleFolderDropEntered: the folder's entries are read even
\* though the folder was not created.
handleFolderDropEnteredAnyway(e, folder, display) ==
  [(IF folder THEN Emit(e, <<"ok", "createFolder">>)
              ELSE Emit(Emit(e, <<"fail", "createFolder">>), <<"error", "FileDropError">>))
     EXCEPT !.pc = "readdir"]

\* Faulty variant of handleFolderDropEntered: the early return after a failed
\* creation is missing, the message is shown as asked.
handleFolderDropEnteredNoReturn(e, folder, display) ==
  [(IF folder THEN Emit(e, <<"ok", "createFolder">>)
    ELSE IF display
    THEN Emit(Emit(e, <<"fail", "createFolder">>), <<"error", "FileDropError">>)
    ELSE Emit(e, <<"fail", "createFolder">>))
     EXCEPT !.pc = "readdir"]

\* handleFolderDrop, lines 607-621: the answer to createFolder.
handleFolderDropEntered(e, folder, display) ==
  IF ~folder
  THEN [(IF display
         THEN Emit(Emit(e, <<"fail", "createFolder">>), <<"error", "FileDropError">>)
         ELSE Emit(e, <<"fail", "createFolder">>))
          EXCEPT !.pc = "done", !.ret = "false"]
  ELSE [Emit(e, <<"ok", "createFolder">>) EXCEPT !.pc = "readdir"]

\* handleFolderDrop, lines 632-645: the answer to this.createFile (which
\* refreshes the tree when the file was created, line 282).
fileCreated(e, ok, display) ==
  [(IF ok
    THEN refresh(Emit(e, <<"ok", "createFile">>))
    ELSE IF display
    THEN Emit(Emit(e, <<"fail", "createFile">>), <<"error", "FileDropError">>)
    ELSE Emit(e, <<"fail", "createFile">>))
     EXCEPT !.pc = "done", !.ret = IF ok THEN "uri" ELSE "undefined"]

\* The caller of the outermost handleFolderDrop takes its result:
\* handleDataTransferItemDrop lines 668-673, uploadUrisToTarget lines 506-521.
topReturned(top, success) ==
  IF top.mode = "drop"
  THEN [(IF success THEN refresh(top) ELSE top) EXCEPT !.pc = "done"]
  ELSE LET failedUploads == IF success THEN top.failedUploads
                            ELSE Append(top.failedUploads, Root)
       IN [(IF Len(failedUploads) > 0
            THEN Emit(top, <<"error", "FileUploadError">>) ELSE top)
             EXCEPT !.pc = "done", !.failedUploads = failedUploads]

\* The dropped directory reaches handleFolderDrop, which asks for the remote
\* folder (line 607).
ImportStart ==
  /\ itop.pc = "idle"
  /\ itop' = [itop EXCEPT !.pc = "running"]
  /\ ient' = [ient EXCEPT ![Root] =
                [Emit(@, <<"call", "createFolder">>) EXCEPT !.pc = "createFolder"]]
  /\ UNCHANGED <<ikind, mvars, xvars>>

\* handleFolderDrop returns val for directory n: to the map callback of the
\* enclosing directory, which stores it (line 629), or to the outer caller.
FolderReturns(n, e, val) ==
  IF n = Root
  THEN /\ ient' = [ient EXCEPT ![n] = e]
       /\ itop' = topReturned(itop, val)
  ELSE /\ ient' = [ient EXCEPT ![n] = e, ![dirOf(n)].success = val]
       /\ itop' = itop

\* model.createFolder answers for directory n.
FolderCreated(n) ==
  /\ ient[n].pc = "createFolder"
  /\ \E folder \in BOOLEAN :
       LET e == handleFolderDropEntered(ient[n], folder, displayErrorMessages(n))
       IN IF e.pc = "done"
          THEN FolderReturns(n, e, FALSE)
          ELSE ient' = [ient EXCEPT ![n] = e] /\ itop' = itop
  /\ UNCHANGED <<ikind, mvars, xvars>>

\* readdir answers (line 621): one sub-task per entry starts and awaits
\* lstat (lines 623-627); the directory awaits them all.
ReadDir(n) ==
  /\ ient[n].pc = "readdir"
  /\ ient' = [c \in Entries |->
                IF c = n THEN [ient[c] EXCEPT !.pc = "entries"]
                ELSE IF c \in EntriesOf(n) THEN [ient[c] EXCEPT !.pc = "lstat"]
                ELSE ient[c]]
  /\ UNCHANGED <<ikind, itop, mvars, xvars>>

\* lstat (and, for a file, readFile) answers for entry c: a directory goes
\* to handleFolderDrop (line 629), a file to this.createFile (line 632).
EntryKnown(c) ==
  /\ ient[c].pc = "lstat"
  /\ ient' = [ient EXCEPT ![c] =
                IF ikind[c] = "dir"
                THEN [Emit(@, <<"call", "createFolder">>) EXCEPT !.pc = "createFolder"]
                ELSE [Emit(@, <<"call", "createFile">>) EXCEPT !.pc = "createFile"]]
  /\ UNCHANGED <<ikind, itop, mvars, xvars>>

\* this.createFile answers for file c (lines 632-645).
FileCreated(c) ==
  /\ ient[c].pc = "createFile"
  /\ \E ok \in BOOLEAN :
       ient' = [ient EXCEPT
                  ![c] = fileCreated(@, ok, displayErrorMessages(dirOf(c))),
                  ![dirOf(c)].success = IF ok THEN @ ELSE FALSE]
  /\ UNCHANGED <<ikind, itop, mvars, xvars>>

\* Promise.all of directory n resolves (line 622) and handleFolderDrop
\* returns success (line 650).
FolderDone(n) ==
  /\ ient[n].pc = "entries"
  /\ \A c \in EntriesOf(n) : ient[c].pc = "done"
  /\ FolderReturns(n, [ient[n] EXCEPT !.pc = "done",
                                      !.ret = IF ient[n].success THEN "true" ELSE "false"],
                   ient[n].success)
  /\ UNCHANGED <<ikind, mvars, xvars>>

INext ==
  \/ ImportStart
  \/ \E n \in Entries : FolderCreated(n)
  \/ \E n \in Entries : ReadDir(n)
  \/ \E n \in Entries : EntryKnown(n)
  \/ \E n \in Entries : FileCreated(n)
  \/ \E n \in Entries : FolderDone(n)

IInit == MutInit /\ XIdle /\ ITree

SpecImport == IInit /\ [][INext]_vars

\* ------------------------------------------------------------ reading a log

\* The import with every pending call answered in the end: each step of
\* INext is the continuation after an awaited remote or file-system call
\* (createFolder, readdir, lstat, createFile, Promise.all), which the
\* transport answers or fails in finite time and the event loop then runs.
SpecImportFair == IInit /\ [][INext]_vars /\ WF_vars(INext)

Has(log, e) == \E k \in DOMAIN log : log[k] = e

Count(log, e) == Cardinality({k \in DOMAIN log : log[k] = e})

\* e1 occurs in the log and every occurrence of e2 comes after its first one
Before(log, e1, e2) ==
  \A k \in DOMAIN log : log[k] = e2 => \E j \in 1..(k - 1) : log[j] = e1

Called(t, call) == Has(t.log, <<"call", call>>)

Refreshes(t) == Count(t.log, <<"refresh", "tree">>)

Declined(t) == Has(t.log, <<"close", "declined">>)

\* ------------------------------------------------------------------ claims

\* C1: renameResource on an item whose tab is open: once the close has been
\* declined, no remote rename is issued for the item, the method returns
\* undefined, and the tab is still open at the old locator.
C1_RenameDeclinedAborts ==
  \A i \in Items :
    (task[i].op = "renameResource" /\ Declined(task[i])) =>
      /\ ~Called(task[i], "renameResource")
      /\ task[i].pc = "done"
      /\ task[i].ret = "undefined"
      /\ tab[i] = "cur"

C1_Witness ==
  \E i \in Items :
    /\ task[i].op = "renameResource"
    /\ task[i].closing = "promise"
    /\ Declined(task[i])
    /\ task[i].pc = "done"

\* C2: emptyRecycleBin returns true only if every child of the trash
\* delegate was deleted (its deleteResource returned true).
C2_EmptyTrueOnlyIfAllDeleted ==
  (batch.kind = "emptyRecycleBin" /\ batch.pc = "done" /\ batch.ret = "true") =>
    \A c \in batch.children : task[c].ret = "true"

\* C3 (as stated): a handleDrop of internal items fires at most one
\* tree-change refresh, and none while one of its items is still being
\* processed.
C3_SingleRefreshAfterAll ==
  batch.kind = "handleDrop" =>
    LET fired == {i \in Items : Refreshes(task[i]) > 0}
    IN /\ Cardinality(fired) + Refreshes(batch) <= 1
       /\ fired # {} => \A i \in Items : ~Running(i)

\* C3 (amended): handleDrop itself requests no refresh; each item whose
\* operation succeeded fires exactly one, in its own completion step, and an
\* item whose operation failed or was rejected fires none.
C3_RefreshPerSuccessfulItem ==
  batch.kind = "handleDrop" =>
    /\ Refreshes(batch) = 0
    /\ \A i \in batch.children :
         LET t == task[i]
             ok == Has(t.log, <<"ok", RemoteOf(t.op)>>)
         IN /\ Refreshes(t) = IF ok THEN 1 ELSE 0
            /\ (t.pc = "done" /\ ~ok) => Has(t.log, <<"error", "FileDropError">>)
                  \/ Has(t.log, <<"error", "FileDragFromTrashError">>)
                  \/ Has(t.log, <<"error", "FileDragFromFavorites">>)

C3_Witness ==
  /\ batch.kind = "handleDrop"
  /\ \E i, j \in Items :
       /\ i # j
       /\ Refreshes(task[i]) = 1
       /\ task[i].op = "moveTo"
       /\ Running(j)

\* C4: deleteResource, recycleResource and restoreResource on an item whose
\* tab is open: once the close has been declined the method returns false, no
\* remote delete or move is issued, and neither notification is fired.
C4_DeclinedCloseLeavesAllUntouched ==
  \A i \in Items :
    LET t == task[i]
    IN (t.op \in {"deleteResource", "recycleResource", "restoreResource"}
          /\ Declined(t)) =>
         /\ t.pc = "done"
         /\ Has(t.log, <<"return", "false">>)
         /\ ~Called(t, "delete")
         /\ ~Called(t, "moveTo")
         /\ Refreshes(t) = 0
         /\ ~Has(t.log, <<"changed", "readOnly">>)

C4_Witness ==
  \E i \in Items :
    /\ batch.kind = "call"
    /\ task[i].op = "recycleResource" /\ Declined(task[i])
    /\ task[i].ret = "false"
    /\ parent[i] \in Folders

\* C5: renameResource: when a tab was open its close has completed before the
\* remote rename is issued; the document is opened only after the remote
\* rename succeeded and only if a tab had been open and its close succeeded;
\* a rename of an item with no open tab opens nothing.
C5_RenameOrdering ==
  \A i \in Items :
    LET t == task[i]
    IN t.op = "renameResource" =>
         /\ (t.closing = "promise") =>
               Before(t.log, <<"close", "ok">>, <<"call", "renameResource">>)
         /\ Before(t.log, <<"ok", "renameResource">>, <<"open", "doc">>)
         /\ Has(t.log, <<"open", "doc">>) =>
               t.closing = "promise" /\ Has(t.log, <<"close", "ok">>)
         /\ (t.closing = "true") => ~Has(t.log, <<"open", "doc">>) /\ tab[i] = "none"

C5_Witness ==
  \E i \in Items :
    /\ task[i].op = "renameResource"
    /\ task[i].closing = "promise"
    /\ Has(task[i].log, <<"open", "doc">>)
    /\ task[i].ret = "uri"
    /\ tab[i] = "cur"

\* C6: an internal item flagged isInRecycleBin dropped on any target gets the
\* FileDragFromTrashError message and no recycle, add-favorite or move.
C6_DropFromTrashRejected ==
  \A i \in Items :
    LET t == task[i]
    IN (t.via # <<>> /\ t.via[1] = "handleContentItemDrop" /\ t.inBin) =>
         /\ t.log = << <<"error", "FileDragFromTrashError">> >>
         /\ t.op = "none"
         /\ t.via = <<"handleContentItemDrop">>
         /\ t.pc = "done"

C6_Witness ==
  \E i \in Items :
    /\ task[i].via = <<"handleContentItemDrop">>
    /\ task[i].inBin
    /\ task[i].isRef
    /\ batch.target.type = FAVORITES_FOLDER_TYPE
    /\ Has(task[i].log, <<"error", "FileDragFromTrashError">>)

\* The provider operation a drop task invoked ("none": none).
Invoked(t) ==
  IF Len(t.via) > 1 THEN t.via[2] ELSE t.op

IsDrop(t) == t.via # <<>> /\ t.via[1] = "handleContentItemDrop"

\* What the target kind selects.
Selected(target) ==
  CASE target.type = TRASH_FOLDER_TYPE -> "recycleResource"
    [] target.type = FAVORITES_FOLDER_TYPE -> "addToMyFavorites"
    [] OTHER -> "moveTo"

RejectedAsReference(t) ==
  /\ t.log = << <<"error", "FileDragFromFavorites">> >>
  /\ t.op = "none"
  /\ t.pc = "done"

\* C7 (as stated): a dropped item not in the recycle bin is rejected with
\* FileDragFromFavorites when it is a Reference; otherwise exactly one
\* operation is invoked: recycle on the trash delegate, add-favorite on the
\* favorites delegate, a move to the target's locator in every other case.
C7_DropDispatch ==
  \A i \in Items :
    LET t == task[i]
    IN (IsDrop(t) /\ ~t.inBin) =>
         IF t.isRef
         THEN RejectedAsReference(t)
         ELSE /\ Invoked(t) = Selected(batch.target)
              /\ Invoked(t) = "moveTo" =>
                    t.dest = batch.target.id /\ Count(t.log, <<"call", "moveTo">>) = 1

\* C7 (amended): as stated, except that an ordinary target whose locator
\* does not resolve gets no operation at all and the FileDropError message.
C7_DropDispatchResolved ==
  \A i \in Items :
    LET t == task[i]
    IN (IsDrop(t) /\ ~t.inBin) =>
         IF t.isRef
         THEN RejectedAsReference(t)
         ELSE IF Selected(batch.target) = "moveTo"
                 /\ getResourceIdFromItem(batch.target) = NoLoc
         THEN /\ Invoked(t) = "none"
              /\ t.log = << <<"error", "FileDropError">> >>
              /\ t.pc = "done"
         ELSE /\ Invoked(t) = Selected(batch.target)
              /\ Invoked(t) = "moveTo" =>
                    t.dest = batch.target.id /\ Count(t.log, <<"call", "moveTo">>) = 1

C7_Witness ==
  \E i, j \in Items :
    /\ IsDrop(task[i]) /\ ~task[i].inBin /\ ~task[i].isRef
    /\ batch.target.type = FAVORITES_FOLDER_TYPE
    /\ Called(task[i], "addFavorite")
    /\ IsDrop(task[j]) /\ RejectedAsReference(task[j])

\* C10: recycleResource with a resolvable trash delegate: the
\* document-content-changed event for the item's read-only locator is emitted
\* exactly once if and only if the move to the trash succeeded, after the move
\* completed, and never when the move failed.
C10_RecycleDocumentEvent ==
  \A i \in Items :
    LET t == task[i]
        moved == Has(t.log, <<"ok", "moveTo">>)
    IN (t.op = "recycleResource" /\ t.dest = Trash) =>
         /\ Count(t.log, <<"changed", "readOnly">>) = IF moved THEN 1 ELSE 0
         /\ Before(t.log, <<"ok", "moveTo">>, <<"changed", "readOnly">>)
         /\ Has(t.log, <<"fail", "moveTo">>) => ~Has(t.log, <<"changed", "readOnly">>)

C10_Witness ==
  \E i \in Items :
    /\ task[i].op = "recycleResource"
    /\ Has(task[i].log, <<"ok", "moveTo">>)
    /\ Has(task[i].log, <<"changed", "readOnly">>)
    /\ parent[i] = Trash

\* The entries written directly under the directory at path p.
EntriesUnder(p) ==
  {e[2][Len(e[2])] : e \in {x \in Range(xlog) :
       /\ x[1] \in {"createDirectory", "writeFile"}
       /\ Len(x[2]) = Len(p) + 1
       /\ SubSeq(x[2], 1, Len(p)) = p}}

\* The members of allSelections whose parent is container n.
SelectedIn(n) == {m \in Range(xall) : parentFolderUri(m) = n}

\* C9: for each exported container the items exported beneath it are
\* exactly the members of allSelections whose parent locator is the
\* container's when there are any, and then its children are not fetched;
\* only when there are none are the fetched children exported.
C9_EffectiveChildren ==
  \A e \in Range(xlog) :
    e[1] = "createDirectory" =>
      LET n == e[2][Len(e[2])]
          fetched == <<"getChildren", <<n>> >> \in Range(xlog)
          effective == IF SelectedIn(n) # {} THEN SelectedIn(n)
                       ELSE {m \in Nodes : parentFolderUri(m) = n}
      IN /\ fetched <=> SelectedIn(n) = {}
         /\ EntriesUnder(e[2]) \subseteq effective
         /\ xstate = "done" => EntriesUnder(e[2]) = effective

\* allSelections = [A, A/x, A/y], selections = [A], A holding a third child:
\* exactly x and y end up under A.
C9_Witness ==
  /\ xstate = "done"
  /\ xall = <<1, 2, 3>>
  /\ EntriesUnder(<<>>) = {1}
  /\ EntriesUnder(<<1>>) = {2, 3}
  /\ parentFolderUri(4) = 1
  /\ <<"getChildren", <<1>> >> \notin Range(xlog)

\* Entry d lies, at any depth, inside directory n.
RECURSIVE Inside(_, _)
Inside(d, n) ==
  IF d <= n THEN FALSE
  ELSE dirOf(d) = n \/ Inside(dirOf(d), n)

\* How often the failure of entry n was reported: error messages naming it,
\* and its places in the caller's failedUploads list.
Reports(n) ==
  Count(ient[n].log, <<"error", "FileDropError">>)
    + (IF n = Root THEN Count(itop.failedUploads, Root) ELSE 0)

\* C8: when the remote folder creation for an external directory fails,
\* nothing is created (or attempted) for any entry inside it, the call
\* returns false, and exactly one failure, the folder's, is reported,
\* however many entries the directory holds.
C8_FolderCreationFailureAbortsBranch ==
  \A n \in Entries :
    Has(ient[n].log, <<"fail", "createFolder">>) =>
      /\ \A d \in Entries : Inside(d, n) => ient[d] = IdleEntry
      /\ ient[n].pc = "done"
      /\ ient[n].ret = "false"
      /\ Reports(n) = 1
      /\ n = Root => itop.pc = "done" /\ ~Has(itop.log, <<"refresh", "tree">>)

C8_Witness ==
  /\ Has(ient[Root].log, <<"fail", "createFolder">>)
  /\ \A c \in 2..4 : ikind[c] = "file"
  /\ ient[Root].ret = "false"
  /\ itop.pc = "done"

\* The runs of deleteResource, as far as they have got: the close is asked
\* for exactly when a tab is open; delete is called after the close
\* succeeded or when there was none; a refresh follows a successful delete;
\* the result is that of the delete, false after a declined close.
DeleteLogs(closing) ==
  LET head == IF closing = "promise" THEN << <<"close", "req">> >> ELSE <<>>
      go == IF closing = "promise"
            THEN head \o << <<"close", "ok">>, <<"call", "delete">> >>
            ELSE << <<"call", "delete">> >>
  IN {go,
      go \o << <<"ok", "delete">>, <<"refresh", "tree">>, <<"return", "true">> >>,
      go \o << <<"fail", "delete">>, <<"return", "false">> >>}
     \cup (IF closing = "promise"
           THEN {head, head \o << <<"close", "declined">>, <<"return", "false">> >>}
           ELSE {})

\* Task t on item i runs as deleteResource does.
IsDeleteRun(t, i) ==
  /\ t.op = "deleteResource"
  /\ t.closing \in {"true", "promise"}
  /\ (t.closing = "true" /\ t.pc # "done") => tab[i] = "none"
  /\ t.log \in DeleteLogs(t.closing)
  /\ t.pc = "done" =>
       /\ t.ret = t.log[Len(t.log)][2]
       /\ Has(t.log, <<"ok", "delete">>) => parent[i] = NoLoc

ViaRecycle(t) == Has(t.via, "recycleResource")

\* C11: recycleResource without a trash delegate behaves as deleteResource on
\* the same item: the same close before the delete, a remote delete and never
\* a move, the same result and the same notifications.
C11_RecycleFallsBackToDelete ==
  \A i \in Items :
    LET t == task[i]
    IN /\ (ViaRecycle(t) /\ t.via[1] = "recycleResource") =>
            IsDeleteRun(t, i) /\ ~Called(t, "moveTo")
       /\ (t.op = "deleteResource" /\ t.via = <<>>) => IsDeleteRun(t, i)

C11_Witness ==
  \E i \in Items :
    /\ task[i].via = <<"recycleResource">>
    /\ task[i].closing = "promise"
    /\ Has(task[i].log, <<"ok", "delete">>)
    /\ task[i].ret = "true"
    /\ parent[i] = NoLoc

\* A task that gave up for want of a link: recycleResource without the trash
\* container's self address, restoreResource without previousParent.
MissingRelation(t) ==
  /\ t.op \in {"recycleResource", "restoreResource"}
  /\ t.dest = NoLoc

\* C12: recycleResource when the trash container's self address cannot be
\* resolved, and restoreResource on an item without a previousParent
\* relation, return false without asking to close a tab, without a remote
\* move or delete and without firing a notification.
C12_MissingRelationTouchesNothing ==
  \A i \in Items :
    LET t == task[i]
    IN MissingRelation(t) =>
         /\ t.pc = "done"
         /\ t.log[1] = <<"return", "false">>
         /\ \A k \in DOMAIN t.log :
              t.log[k] \in {<<"return", "false">>, <<"error", "FileDropError">>}
         /\ t.closing = "none"
         /\ IsDrop(t) \/ t.ret = "false"

C12_Witness ==
  \E i \in Items :
    /\ batch.kind = "call"
    /\ task[i].op = "restoreResource"
    /\ MissingRelation(task[i])
    /\ task[i].ret = "false"
    /\ tab[i] = "cur"
    /\ parent[i] \in Folders

C12_WitnessRecycle ==
  \E i \in Items :
    /\ task[i].op = "recycleResource"
    /\ MissingRelation(task[i])
    /\ tab[i] = "cur"

\* The step in which the remote call of task i's operation op succeeds.
Succeeds(i, op) ==
  /\ task[i].op = op
  /\ ~Has(task[i].log, <<"ok", RemoteOf(op)>>)
  /\ Has(task'[i].log, <<"ok", RemoteOf(op)>>)

ErrorMessages ==
  UNION {{<<n, k>> : k \in {j \in DOMAIN ient[n].log : ient[n].log[j][1] = "error"}} :
           n \in Entries}
    \cup {<<0, k>> : k \in {j \in DOMAIN itop.log : itop.log[j][1] = "error"}}

\* C14: one uploadUrisToTarget batch shows the user at most one error
\* message, however many items or nested files fail.
C14_UploadAtMostOneError ==
  itop.mode = "upload" => Cardinality(ErrorMessages) <= 1

\* The remote mutation of task t succeeded.
Mutated(t) == t.op # "none" /\ Has(t.log, <<"ok", RemoteOf(t.op)>>)

\* C15: every successful mutation (createFolder, createFile, renameResource,
\* deleteResource, recycleResource, restoreResource, addToMyFavorites,
\* removeFromMyFavorites, the move of a drop) is followed by a tree-change
\* notification before the operation returns.
C15_MutationThenRefresh ==
  \A i \in Items :
    (task[i].pc = "done" /\ Mutated(task[i])) =>
      \E k, j \in DOMAIN task[i].log :
        /\ k < j
        /\ task[i].log[k] = <<"ok", RemoteOf(task[i].op)>>
        /\ task[i].log[j] = <<"refresh", "tree">>

\* The same for every operation but renameResource.
C15_RefreshUnlessRename ==
  \A i \in Items :
    (task[i].pc = "done" /\ Mutated(task[i]) /\ task[i].op # "renameResource") =>
      Before(task[i].log, <<"ok", RemoteOf(task[i].op)>>, <<"refresh", "tree">>)
        /\ Refreshes(task[i]) = 1

\* The remote creation for entry d was attempted and failed.
CreationFailed(d) ==
  Has(ient[d].log, <<"fail", "createFolder">>) \/ Has(ient[d].log, <<"fail", "createFile">>)

\* C16: handleFolderDrop returns false whenever the creation of at least one
\* descendant, file or folder, failed, however the sub-tasks interleave: a
\* sibling that succeeds later never turns the result back to true.
C16_FailureNeverMasked ==
  \A n \in Entries :
    (ikind[n] = "dir" /\ ient[n].pc = "done"
       /\ \E d \in Entries : Inside(d, n) /\ CreationFailed(d))
      => ient[n].ret = "false"

\* The remote creation for entry c has been asked for.
CreationCalled(c) ==
  Has(ient[c].log, <<"call", "createFolder">>) \/ Has(ient[c].log, <<"call", "createFile">>)

\* C17: the remote creation for a file or a subfolder is asked for only
\* once the creation of the remote folder that is to hold it has succeeded,
\* and so for every enclosing folder up to the dropped directory.
C17_FolderBeforeContents ==
  \A c \in Entries :
    CreationCalled(c) =>
      \A a \in Entries :
        Inside(c, a) =>
          /\ ikind[a] = "dir"
          /\ Has(ient[a].log, <<"ok", "createFolder">>)
          /\ ient[a].pc \in {"entries", "done"}

\* A file two levels below the dropped directory whose creation was asked for.
C17_Witness ==
  \E c \in Entries :
    /\ dirOf(c) # Root
    /\ c # Root
    /\ Has(ient[c].log, <<"call", "createFile">>)
    /\ ient[dirOf(c)].pc = "entries"

\* The entries the external directory n holds.
Siblings(n) == {c \in Entries : dirOf(c) = n /\ ikind[c] # "none"}

CreationCalls(c) ==
  Count(ient[c].log, <<"call", "createFolder">>) + Count(ient[c].log, <<"call", "createFile">>)

\* No entry is attempted twice, and when the call for a directory whose
\* remote folder was created returns, every entry of it was attempted once.
EachEntryAttemptedOnce ==
  \A n \in Entries :
    /\ CreationCalls(n) <= 1
    /\ (ient[n].pc = "done" /\ Has(ient[n].log, <<"ok", "createFolder">>)) =>
         \A c \in Siblings(n) : CreationCalls(c) = 1 /\ ient[c].pc = "done"

\* C18: within a directory whose remote folder was created, every entry
\* gets exactly one remote creation attempt whether or not its siblings
\* fail, and the import of a finite tree completes in the end.
C18_SiblingIndependence ==
  /\ []EachEntryAttemptedOnce
  /\ <>(itop.pc = "done")

\* A finished directory in which one entry failed and another was created.
C18_Witness ==
  \E n \in Entries : \E c, d \in Siblings(n) :
    /\ ient[n].pc = "done"
    /\ CreationFailed(c)
    /\ c < d
    /\ Has(ient[d].log, <<"ok", "createFile">>)
    /\ itop.pc = "done"

IsBatch == batch.kind \in {"handleDrop", "emptyRecycleBin"}

\* The remote operation of task t was issued.
Issued(t) == \E k \in DOMAIN t.log : t.log[k][1] = "call"

\* The remote operation of task t failed.
RemoteFailed(t) == \E k \in DOMAIN t.log : t.log[k][1] = "fail"

\* Task t ended without a remote operation for a reason of its own item: the
\* close of its tab was declined, the drop of the item was rejected, or a
\* link of the item was missing.
OwnReason(t) ==
  \/ Declined(t)
  \/ t.op = "none" /\ \E k \in DOMAIN t.log : t.log[k][1] = "error"
  \/ MissingRelation(t)

\* In a batch, an item whose close was declined or whose remote operation
\* failed is the only one held back by it: every item of the batch has its
\* remote operation issued unless it has a reason of its own.
BatchIsolation ==
  IsBatch =>
    \A j \in batch.children :
      /\ Declined(task[j]) => ~Issued(task[j])
      /\ task[j].pc # "closing" => Issued(task[j]) \/ OwnReason(task[j])

\* C19: in an emptyRecycleBin or handleDrop batch, a declined close or a
\* remote failure for one item prevents only that item's remote mutation;
\* the remote operation of every other item is still issued, and the batch
\* completes in the end.
C19_BatchAbortIsolation ==
  /\ []BatchIsolation
  /\ (IsBatch /\ batch.pc = "running") ~> (batch.pc = "done")

\* A finished batch of two: one item's close was declined, the other's
\* remote operation was issued and succeeded.
C19_Witness ==
  \E j, k \in batch.children :
    /\ IsBatch
    /\ batch.pc = "done"
    /\ Declined(task[j])
    /\ Mutated(task[k])

C19_WitnessRemoteFailure ==
  \E j, k \in batch.children :
    /\ IsBatch
    /\ batch.pc = "done"
    /\ RemoteFailed(task[j])
    /\ j < k
    /\ Mutated(task[k])

\* Something was written at the place the event names.
Writes(e) == e[1] \in {"createDirectory", "writeFile"}

\* C20: during an export the directory of a container is created before
\* any file or subdirectory is written into it, and so at every depth:
\* whatever is written below the destination folder has all the directories
\* on its path created earlier.
C20_DirectoryBeforeContents ==
  \A k \in DOMAIN xlog :
    Writes(xlog[k]) =>
      \A d \in 1..(Len(xlog[k][2]) - 1) :
        \E j \in 1..(k - 1) :
          xlog[j] = <<"createDirectory", SubSeq(xlog[k][2], 1, d)>>

\* A file written two directories below the destination folder.
C20_Witness ==
  \E k \in DOMAIN xlog :
    /\ xlog[k][1] = "writeFile"
    /\ Len(xlog[k][2]) = 3

\* The operations that refresh the tree themselves.
RefreshingOps ==
  {"createFolder", "createFile", "deleteResource", "recycleResource",
   "restoreResource", "addToMyFavorites", "removeFromMyFavorites", "moveTo"}

\* C21: createFolder, createFile, deleteResource, recycleResource,
\* restoreResource, addToMyFavorites, removeFromMyFavorites and the move of
\* a drop fire a tree-change notification only after their repository
\* operation reported success: an operation whose repository call failed,
\* was given up before it was issued, or was never issued, fires none.
C21_NoRefreshWithoutSuccess ==
  \A i \in Items :
    LET t == task[i]
    IN /\ \A k \in DOMAIN t.log :
            t.log[k] = <<"refresh", "tree">> =>
              /\ t.op \in RefreshingOps
              /\ \E j \in 1..(k - 1) : t.log[j] = <<"ok", RemoteOf(t.op)>>
       /\ (RemoteFailed(t) \/ Declined(t) \/ ~Issued(t)) => Refreshes(t) = 0

\* A finished restoreResource whose move the repository refused: no refresh.
C21_Witness ==
  \E i \in Items :
    /\ task[i].op = "restoreResource"
    /\ task[i].pc = "done"
    /\ RemoteFailed(task[i])
    /\ Refreshes(task[i]) = 0

\* The two other cases: given up at a declined close, and never issued.
C21_WitnessAborted ==
  \E i, j \in Items :
    /\ Declined(task[i]) /\ task[i].op = "deleteResource"
    /\ task[j].pc = "done" /\ ~Issued(task[j]) /\ j # i
    /\ Refreshes(task[i]) + Refreshes(task[j]) = 0

====
